---- MODULE Spec2Model ----
(***************************************************************************)
(* Model of the hyrise execution core fragments:                           *)
(*   - access::EqualsExpression<T>  (pred_EqualsExpression.h)              *)
(*   - PapiTracer / FallbackTracer  (helper/PapiTracer.h)                  *)
(* Each part has its own specification (SpecExpr, SpecTracer); a           *)
(* specification leaves the variables of the other parts unchanged.        *)
(***************************************************************************)
EXTENDS Integers, Sequences, FiniteSets, TLC

VARIABLES tables, exprs, last, papi, fb, clock, tout,
          pc, built, init_mtx, initialized, lib, exited,
          is_registered, ops, data, nout

vars == <<tables, exprs, last, papi, fb, clock, tout,
          pc, built, init_mtx, initialized, lib, exited,
          is_registered, ops, data, nout>>
exprVars == <<tables, exprs, last>>
tracerVars == <<papi, fb, clock, tout>>
initVars == <<pc, built, init_mtx, initialized, lib, exited>>
noopVars == <<is_registered, ops, data, nout>>

(***************************************************************************)
(* Bounds                                                                  *)
(***************************************************************************)
\* rows per table
NumRows == 2
\* entries of a tracer's _counters vector
MaxCounters == 2
\* threads that construct PapiTracer instances
NumThreads == 2
\* PapiTracer instances each thread constructs
MaxConstructions == 2
\* NoOp instances parsed
MaxOps == 2
\* executions of one NoOp instance in a row
MaxRuns == 2
\* seconds the wall clock runs for
MaxSeconds == 2

(***************************************************************************)
(* Storage collaborator: tables, columns, dictionaries                     *)
(***************************************************************************)
\* std::numeric_limits<value_id_t>::max(): the "not in dictionary" sentinel.
\* TLC integers are 32 bit signed; the sentinel is its largest integer.
value_id_t_max == 2147483647

\* domain values stored in columns and used as literals
Values == {1, 2}
Rows == 0 .. (NumRows - 1)
TableIds == {1, 2}
NullTable == 0
Fields == {0, 1}
FieldNames == {"a", "b"}
\* the expression under study is EqualsExpression<hyrise_int_t>
T == "int"

RECURSIVE SortedSeq(_)
\* the elements of a finite set of integers in ascending order
SortedSeq(S) ==
  IF S = {} THEN << >>
  ELSE LET m == CHOOSE x \in S : \A y \in S : x <= y
       IN <<m>> \o SortedSeq(S \ {m})

\* position (1-based) of v in sequence d, 0 when absent
IndexOf(d, v) ==
  IF \E i \in 1 .. Len(d) : d[i] = v
  THEN CHOOSE i \in 1 .. Len(d) : d[i] = v
  ELSE 0

\* A dictionary-compressed column holding the raw values vals (row -> value):
\* an ordered dictionary of the distinct values and one ValueId per row.
Column(type, vals) ==
  LET d == SortedSeq({vals[r] : r \in Rows})
  IN [type |-> type, dict |-> d, ids |-> [r \in Rows |-> IndexOf(d, vals[r]) - 1]]

\* A table has an int column "a" and a string column "b".  String values are
\* represented by their rank; the string column holds one value.
Table(n, va) ==
  [names |-> n,
   cols |-> [f \in Fields |-> IF n[f] = "a" THEN Column("int", va)
                              ELSE Column("string", [r \in Rows |-> 1])]]

\* The tables of the store.  Table 1 has its columns in the order (a, b);
\* table 2 has them in either order (renumbering the fields of both tables
\* maps the other two layouts onto these).
TableSet(id) ==
  { Table(n, va) :
      n \in {m \in [Fields -> FieldNames] : m[0] # m[1] /\ (id = 1 => m[0] = "a")},
      va \in [Rows -> Values] }

\* AbstractTable::numberOfColumn(name)
numberOfColumn(tab, name) == CHOOSE f \in Fields : tab.names[f] = name

\* AbstractTable::getValueId(field, row).valueId
getValueId(tab, f, row) == tab.cols[f].ids[row]

\* BaseDictionary<T>::findValueIdForValue(value): the ValueId, or the sentinel
findValueIdForValue(dict, v) ==
  IF IndexOf(dict, v) = 0 THEN value_id_t_max ELSE IndexOf(dict, v) - 1

\* std::dynamic_pointer_cast<BaseDictionary<T>>(table->dictionaryAt(field)):
\* a handle <<table, field>> on the dictionary, or the null handle
NullDict == [t |-> 0, f |-> 0]
dictionaryCast(tabs, t, f) ==
  IF tabs[t].cols[f].type = T THEN [t |-> t, f |-> f] ELSE NullDict

(***************************************************************************)
(* EqualsExpression<T>                                                     *)
(***************************************************************************)
ExprIds == {1, 2}
NoInput == -1
NoField == -1
\* the input lists a plan operation may hand to walk()
Lists == << <<1, 2>>, <<2, 1>> >>

\* An instance that does not exist (yet)
Absent ==
  [alive |-> FALSE, input |-> NoInput, table |-> NullTable, field |-> NoField,
   field_name |-> "", value |-> 0, lower_bound |-> 0, valueIdMap |-> NullDict,
   value_exists |-> FALSE, indet |-> {}, bound |-> FALSE, cloneOfBound |-> FALSE]

\* Members no constructor initialises hold indeterminate values: they are
\* listed in indet until walk() assigns them.
Fresh(i, t, f, fname, v) ==
  [Absent EXCEPT !.alive = TRUE, !.input = i, !.table = t, !.field = f,
                 !.field_name = fname, !.value = v,
                 !.indet = {"lower_bound", "value_exists"} \cup
                           (IF f = NoField THEN {"field"} ELSE {})]

\* EqualsExpression(size_t _input, field_t _field, T _value)
NewByIndex(i, f, v) == Fresh(i, NullTable, f, "", v)
\* EqualsExpression(size_t _input, field_name_t _field, T _value)
NewByName(i, fname, v) == Fresh(i, NullTable, NoField, fname, v)
\* EqualsExpression(c_atable_ptr_t& _table, field_t _field, T _value)
NewByTable(t, f, v) == Fresh(NoInput, t, f, "", v)

\* what an indeterminate ValueId may hold
GarbageIds == (0 .. (Cardinality(Values) - 1)) \cup {value_id_t_max}

\* SimpleFieldExpression::walk(l): select the table (the direct handle, or the
\* input list's slot) and resolve a field name against it.
SimpleFieldWalk(e, tabs, l) ==
  LET t == IF e.input = NoInput THEN e.table ELSE l[e.input + 1]
      byName == e.field_name # "" /\ t # NullTable
  IN [e EXCEPT !.table = t,
               !.field = IF byName THEN numberOfColumn(tabs[t], e.field_name) ELSE @,
               !.indet = IF byName THEN @ \ {"field"} ELSE @]

\* Resolve with the looked-up ValueId dropped: only value_exists is cached
Resolve_noCache(e, m, vid) ==
  [e EXCEPT !.valueIdMap = m, !.lower_bound = 0,
            !.value_exists = (vid # value_id_t_max),
            !.indet = @ \ {"lower_bound", "value_exists"},
            !.bound = TRUE]

\* lines 34-35: the one dictionary lookup of the literal, cached in lower_bound
\* and value_exists
Resolve(e, m, vid) ==
  [e EXCEPT !.valueIdMap = m, !.lower_bound = vid,
            !.value_exists = (vid # value_id_t_max),
            !.indet = @ \ {"lower_bound", "value_exists"},
            !.bound = TRUE]

\* a walk() that keeps what an earlier walk() resolved
walk_keepCache(e, tabs, l) ==
  LET b == SimpleFieldWalk(e, tabs, l)
  IN IF e.bound THEN {[outcome |-> "ok", e |-> b, lookups |-> 0]}
     ELSE IF b.table = NullTable \/ "field" \in b.indet
     THEN {[outcome |-> "crash", e |-> b, lookups |-> 0]}
     ELSE LET m == dictionaryCast(tabs, b.table, b.field)
          IN IF m = NullDict
             THEN {[outcome |-> "crash",
                    e |-> [b EXCEPT !.valueIdMap = m],
                    lookups |-> 1]}
                  \cup {[outcome |-> "ok", e |-> Resolve(b, m, g), lookups |-> 1] :
                          g \in GarbageIds}
             ELSE {[outcome |-> "ok",
                    e |-> Resolve(b, m,
                            findValueIdForValue(tabs[m.t].cols[m.f].dict, b.value)),
                    lookups |-> 1]}

\* EqualsExpression::walk(l).  The results are the ways the call can end:
\* normally ("ok", with the new member values) or by the process dying on a
\* null pointer ("crash").  Calling findValueIdForValue through the null
\* pointer a failed cast leaves is undefined: the call may crash or return
\* anything.
walk(e, tabs, l) ==
  LET b == SimpleFieldWalk(e, tabs, l)
  IN IF b.table = NullTable \/ "field" \in b.indet
     THEN {[outcome |-> "crash", e |-> b, lookups |-> 0]}
     ELSE LET m == dictionaryCast(tabs, b.table, b.field)
          IN IF m = NullDict
             THEN {[outcome |-> "crash",
                    e |-> [b EXCEPT !.valueIdMap = m],
                    lookups |-> 1]}
                  \cup {[outcome |-> "ok", e |-> Resolve(b, m, g), lookups |-> 1] :
                          g \in GarbageIds}
             ELSE {[outcome |-> "ok",
                    e |-> Resolve(b, m,
                            findValueIdForValue(tabs[m.t].cols[m.f].dict, b.value)),
                    lookups |-> 1]}

\* operator() without the value_exists short circuit: the row is always read
call_noShortCircuit(e, tabs, row) ==
  IF e.table = NullTable THEN {[outcome |-> "crash", reads |-> 0, lookups |-> 0]}
  ELSE {[outcome |-> IF getValueId(tabs[e.table], e.field, row) = e.lower_bound
                     THEN "true" ELSE "false",
         reads |-> 1, lookups |-> 0]}

\* EqualsExpression::operator()(row):
\*   value_exists && table->getValueId(field, row) == lower_bound
\* The results are the ways the call can end, with the number of getValueId
\* calls (reads) and of dictionary lookups made.  Reading an indeterminate member yields any value.
call(e, tabs, row) ==
  LET ves == IF "value_exists" \in e.indet THEN BOOLEAN ELSE {e.value_exists}
      lbs == IF "lower_bound" \in e.indet THEN GarbageIds ELSE {e.lower_bound}
      fs  == IF "field" \in e.indet THEN Fields ELSE {e.field}
  IN UNION { IF ~ve THEN {[outcome |-> "false", reads |-> 0, lookups |-> 0]}
             ELSE IF e.table = NullTable THEN {[outcome |-> "crash", reads |-> 0, lookups |-> 0]}
             ELSE {[outcome |-> IF getValueId(tabs[e.table], f, row) = lb
                                THEN "true" ELSE "false",
                    reads |-> 1, lookups |-> 0] : f \in fs, lb \in lbs}
           : ve \in ves }

\* EqualsExpression::clone(): new EqualsExpression<T>(table, field, value)
clone(e) ==
  [NewByTable(e.table, e.field, e.value) EXCEPT !.cloneOfBound = e.bound]

(***************************************************************************)
(* Expression actions                                                      *)
(***************************************************************************)
\* the last call; from is the table the expression was bound to when a
\* walk() was called
NoCall == [op |-> "none", e |-> 0, outcome |-> "none", row |-> 0, reads |-> 0,
           lookups |-> 0, l |-> 0, from |-> NullTable]

\* the process is still running
Running == last.outcome # "crash"

Walk(id, li) ==
  /\ Running
  /\ exprs[id].alive
  /\ \E r \in walk(exprs[id], tables, Lists[li]) :
       /\ exprs' = [exprs EXCEPT ![id] = r.e]
       /\ last' = [NoCall EXCEPT !.op = "walk", !.e = id, !.outcome = r.outcome,
                                 !.lookups = r.lookups, !.l = li,
                                 !.from = exprs[id].table]
  /\ UNCHANGED <<tables, tracerVars, initVars, noopVars>>

Eval(id, row) ==
  /\ Running
  /\ exprs[id].alive
  /\ \E r \in call(exprs[id], tables, row) :
       last' = [NoCall EXCEPT !.op = "eval", !.e = id, !.outcome = r.outcome,
                              !.row = row, !.reads = r.reads,
                              !.lookups = r.lookups]
  /\ UNCHANGED <<tables, exprs, tracerVars, initVars, noopVars>>

Clone ==
  /\ Running
  /\ exprs[1].alive
  /\ ~exprs[2].alive
  /\ exprs' = [exprs EXCEPT ![2] = clone(exprs[1])]
  /\ last' = [NoCall EXCEPT !.op = "clone", !.e = 1, !.outcome = "ok"]
  /\ UNCHANGED <<tables, tracerVars, initVars, noopVars>>

(***************************************************************************)
(* PAPI library (external): one event set per tracer                       *)
(***************************************************************************)
\* counter names handed to addEvent: two PAPI presets, a name PAPI does not
\* know, and the reserved name that disables tracing
ValidNames == {"PAPI_TOT_INS", "PAPI_TOT_CYC"}
Names == ValidNames \cup {"BOGUS", "NO_PAPI"}
\* counter values PAPI_stop may report
Measured == {1, 2}

\* PAPI_event_name_to_code: PAPI_OK iff the name is an event PAPI knows
PAPI_event_name_to_code(name) == name \in ValidNames

\* PAPI_add_event: fails on a counting event set (PAPI_EISRUN) and for an
\* event the set already holds (PAPI_ECNFLCT)
PAPI_add_event(p, name) ==
  IF p.counting \/ (\E i \in 1 .. Len(p.events) : p.events[i] = name)
  THEN [ok |-> FALSE, p |-> p]
  ELSE [ok |-> TRUE, p |-> [p EXCEPT !.events = Append(@, name)]]

\* PAPI_stop: fails on an event set that is not counting (PAPI_ENOTRUN);
\* otherwise stops it and stores one value per event of the set
PAPI_stop(p, vals) ==
  IF ~p.counting THEN [ok |-> FALSE, p |-> p]
  ELSE [ok |-> TRUE,
        p |-> [p EXCEPT !.counting = FALSE,
                        !.snap = [i \in 1 .. Len(p.events) |-> vals[i]],
                        !._results = [i \in 1 .. Len(@) |->
                                        IF i <= Len(p.events) THEN vals[i] ELSE @[i]]]]

(***************************************************************************)
(* PapiTracer (USE_PAPI_TRACE)                                             *)
(***************************************************************************)
\* helper/stringhelpers.h joinString(v, delim): the elements with the
\* delimiter between them
RECURSIVE joinString(_, _)
joinString(v, delim) ==
  IF Len(v) = 0 THEN << >>
  ELSE IF Len(v) = 1 THEN v
  ELSE <<v[1], delim>> \o joinString(Tail(v), delim)

\* the error text without the list of registered names
Unregistered_noList(eventName, counters) ==
  <<"Trying to access unregistered event '", eventName, "' Available: ">>

\* the text of the "unregistered event" TracingError
Unregistered(eventName, counters) ==
  <<"Trying to access unregistered event '", eventName, "' Available: ">>
    \o joinString(counters, " ")

\* the result of a call: how it ended, what it returned, the error text
Ok(v) == [status |-> "ok", value |-> v, msg |-> << >>]
Thrown(kind, msg) == [status |-> kind, value |-> 0, msg |-> msg]

\* std::find: position (1-based) of the first element equal to x, 0 for end()
find(v, x) ==
  IF \E i \in 1 .. Len(v) : v[i] = x
  THEN CHOOSE i \in 1 .. Len(v) : v[i] = x /\ \A j \in 1 .. (i - 1) : v[j] # x
  ELSE 0

\* PapiTracer::PapiTracer(): _disabled(false), _running(false), an empty
\* event set.  snap is what the most recent successful PAPI_stop reported;
\* win is "closed" once stop() has completed a window, "reused" once
\* start() has been called after that.
PapiNew ==
  [_disabled |-> FALSE, _running |-> FALSE, _counters |-> << >>,
   _results |-> << >>, events |-> << >>, counting |-> FALSE, snap |-> << >>,
   win |-> "none"]

\* PapiTracer::addEvent
PapiAddEvent(p, eventName) ==
  IF eventName = "NO_PAPI"
  THEN [res |-> Ok(0), p |-> [p EXCEPT !._disabled = TRUE]]
  ELSE [res |-> Ok(0), p |-> [p EXCEPT !._counters = Append(@, eventName)]]

\* the loop of start(): translate and attach _counters[i..]; stops at the
\* first PAPI error
RECURSIVE AttachFrom(_, _)
AttachFrom(p, i) ==
  IF i > Len(p._counters) THEN [ok |-> TRUE, p |-> p, msg |-> << >>]
  ELSE IF ~PAPI_event_name_to_code(p._counters[i])
  THEN [ok |-> FALSE, p |-> p, msg |-> <<"Create event from ", p._counters[i]>>]
  ELSE LET a == PAPI_add_event(p, p._counters[i])
       IN IF ~a.ok THEN [ok |-> FALSE, p |-> p, msg |-> <<"Adding event to event set">>]
          ELSE AttachFrom(a.p, i + 1)

\* start() without the check for an empty _counters
PapiStart_noEmptyCheck(p, hwOk) ==
  IF p._disabled THEN [res |-> Ok(0), p |-> p]
  ELSE LET q == [p EXCEPT !._results = [i \in 1 .. Len(p._counters) |-> 0],
                          !._running = TRUE]
       IN IF q.counting \/ ~hwOk \/ Len(q.events) = 0
          THEN [res |-> Thrown("TracingError", <<"Starting counter">>), p |-> q]
          ELSE [res |-> Ok(0), p |-> [q EXCEPT !.counting = TRUE]]

\* PapiTracer::start.  hwOk: whether PAPI_start can start the hardware
\* counters of the set.
PapiStart(p, hwOk) ==
  IF p._disabled THEN [res |-> Ok(0), p |-> p]
  ELSE IF Len(p._counters) = 0
  THEN [res |-> Thrown("runtime_error", <<"No events set">>), p |-> p]
  ELSE LET a == AttachFrom([p EXCEPT !.win = IF @ = "closed" THEN "reused" ELSE "none"], 1)
       IN IF ~a.ok THEN [res |-> Thrown("TracingError", a.msg), p |-> a.p]
          ELSE LET q == [a.p EXCEPT !._results = [i \in 1 .. Len(p._counters) |-> 0],
                                    !._running = TRUE]
               IN IF q.counting \/ ~hwOk
                  THEN [res |-> Thrown("TracingError", <<"Starting counter">>), p |-> q]
                  ELSE [res |-> Ok(0), p |-> [q EXCEPT !.counting = TRUE]]

\* PapiTracer::stop
PapiStop(p, vals) ==
  IF p._disabled THEN [res |-> Ok(0), p |-> p]
  ELSE LET s == PAPI_stop(p, vals)
       IN IF ~s.ok THEN [res |-> Thrown("TracingError", <<"Stopping Counter">>), p |-> p]
          ELSE [res |-> Ok(0), p |-> [s.p EXCEPT !._running = FALSE, !.win = "closed"]]

\* PapiTracer::reset
PapiReset(p, vals) ==
  IF p._disabled THEN [res |-> Ok(0), p |-> p]
  ELSE LET s == PapiStop(p, vals)
       IN IF s.res.status # "ok" THEN s
          ELSE [res |-> Ok(0), p |-> [s.p EXCEPT !._results = << >>, !.win = "none"]]

\* PapiTracer::value
PapiValue(p, eventName) ==
  IF p._disabled THEN Ok(0)
  ELSE LET item == find(p._counters, eventName)
       IN IF item = 0
          THEN Thrown("TracingError", Unregistered(eventName, p._counters))
          ELSE IF item > Len(p._results) THEN Thrown("out_of_range", << >>)
          ELSE Ok(p._results[item])

\* PAPI_cleanup_eventset: fails on a counting event set (PAPI_EISRUN);
\* otherwise removes every event from it
PAPI_cleanup_eventset(p) ==
  IF p.counting THEN [ok |-> FALSE, p |-> p]
  ELSE [ok |-> TRUE, p |-> [p EXCEPT !.events = << >>]]

\* PapiTracer::~PapiTracer.  An exception that leaves the destructor ends
\* the program.
PapiDestroy(p, vals) ==
  LET s == IF p._running THEN PapiStop(p, vals) ELSE [res |-> Ok(0), p |-> p]
  IN IF s.res.status # "ok" THEN s
     ELSE LET c == PAPI_cleanup_eventset(s.p)
          IN IF ~c.ok
             THEN [res |-> Thrown("TracingError", <<"cleaning eventset">>), p |-> s.p]
             ELSE [res |-> Ok(0), p |-> c.p]

(***************************************************************************)
(* FallbackTracer (no USE_PAPI_TRACE)                                      *)
(***************************************************************************)
\* what the wall clock advances by between two calls, in microseconds
TickSteps == {600000}
\* what an indeterminate result_t may hold
GarbageResults == {0, 777}

\* gettimeofday(&tv, nullptr) at wall-clock time now (microseconds)
gettimeofday(now) == [tv_sec |-> now \div 1000000, tv_usec |-> now % 1000000]

\* FallbackTracer has no constructor: _result and _start are indeterminate
\* until start(), stop() or reset() assign them.  snap is the elapsed time
\* of the most recent completed start()/stop() window (-1: none yet),
\* startedAt the wall-clock time of the start() that opened the current
\* window (-1: none), stoppedAt that of the stop() that closed it (-1: still
\* open), again whether that start() followed a completed window.
FallbackNew ==
  [_counters |-> << >>, _result |-> 0, _start |-> gettimeofday(0),
   indet |-> {"_result", "_start"}, snap |-> -1,
   startedAt |-> -1, stoppedAt |-> -1, again |-> FALSE]

\* FallbackTracer::addEvent
FallbackAddEvent(f, eventName) ==
  [res |-> Ok(0), f |-> [f EXCEPT !._counters = Append(@, eventName)]]

\* a start() that keeps the timestamp of an earlier window
FallbackStart_keepStart(f, now) ==
  IF Len(f._counters) = 0
  THEN [res |-> Thrown("TracingError", <<"No events set">>), f |-> f]
  ELSE [res |-> Ok(0),
        f |-> [f EXCEPT !._result = 0,
                        !._start = IF "_start" \in f.indet THEN gettimeofday(now) ELSE @,
                        !.indet = {}, !.startedAt = now, !.stoppedAt = -1,
                        !.again = (f.stoppedAt # -1)]]

\* FallbackTracer::start
FallbackStart(f, now) ==
  IF Len(f._counters) = 0
  THEN [res |-> Thrown("TracingError", <<"No events set">>), f |-> f]
  ELSE [res |-> Ok(0),
        f |-> [f EXCEPT !._result = 0, !._start = gettimeofday(now), !.indet = {},
                        !.startedAt = now, !.stoppedAt = -1,
                        !.again = (f.stoppedAt # -1)]]

\* line 196: the elapsed microseconds between two timevals
Elapsed(start, end) ==
  (end.tv_sec - start.tv_sec) * 1000000 + (end.tv_usec - start.tv_usec)

\* FallbackTracer::stop.  g: what the subtraction yields when _start is
\* indeterminate.
FallbackStop(f, now, g) ==
  LET r == IF "_start" \in f.indet THEN g ELSE Elapsed(f._start, gettimeofday(now))
  IN [res |-> Ok(0),
      f |-> [f EXCEPT !._result = r, !.indet = @ \ {"_result"},
                      !.snap = IF "_start" \in f.indet THEN @ ELSE r,
                      !.stoppedAt = IF f.startedAt = -1 THEN @ ELSE now]]

\* FallbackTracer::reset
FallbackReset(f) ==
  [res |-> Ok(0),
   f |-> [f EXCEPT !._start = gettimeofday(0), !._result = 0, !.indet = {},
                   !.startedAt = -1, !.stoppedAt = -1]]

\* FallbackTracer::value.  g: what an indeterminate _result reads as.
FallbackValue(f, eventName, g) ==
  IF find(f._counters, eventName) = 0
  THEN Thrown("TracingError", Unregistered(eventName, f._counters))
  ELSE Ok(IF "_result" \in f.indet THEN g ELSE f._result)

(***************************************************************************)
(* Tracer actions: each call is made on a PapiTracer and on a              *)
(* FallbackTracer side by side                                             *)
(***************************************************************************)
\* the last call: its name and argument, how it ended on each tracer, and
\* whether it left each tracer's state as it was
NoTrace == [op |-> "none", name |-> "", p |-> Ok(0), f |-> Ok(0),
            pkept |-> TRUE, fkept |-> TRUE]

Traced(op, name, a, b) ==
  [op |-> op, name |-> name, p |-> a.res, f |-> b.res,
   pkept |-> (a.p = papi), fkept |-> (b.f = fb)]

\* the tracers have not been destroyed
Alive == tout.op # "destroy"

\* what PAPI_stop may report for the events of the set (nothing to report
\* when the set is not counting)
Reports ==
  IF papi.counting THEN [1 .. Len(papi.events) -> Measured] ELSE {<< >>}

\* what the FallbackTracer may read from an indeterminate member (nothing to
\* choose when the member has been assigned)
Garbage(member) ==
  IF member \in fb.indet THEN GarbageResults ELSE {0}

AddEvent(name) ==
  /\ Alive
  /\ Len(fb._counters) < MaxCounters
  /\ LET a == PapiAddEvent(papi, name)
         b == FallbackAddEvent(fb, name)
     IN /\ papi' = a.p
        /\ fb' = b.f
        /\ tout' = Traced("addEvent", name, a, b)
  /\ UNCHANGED <<clock, exprVars, initVars, noopVars>>

Start ==
  /\ Alive
  /\ \E hwOk \in BOOLEAN :
       LET a == PapiStart(papi, hwOk)
           b == FallbackStart(fb, clock)
       IN /\ papi' = a.p
          /\ fb' = b.f
          /\ tout' = Traced("start", "", a, b)
  /\ UNCHANGED <<clock, exprVars, initVars, noopVars>>

Stop ==
  /\ Alive
  /\ \E vals \in Reports, g \in Garbage("_start") :
       LET a == PapiStop(papi, vals)
           b == FallbackStop(fb, clock, g)
       IN /\ papi' = a.p
          /\ fb' = b.f
          /\ tout' = Traced("stop", "", a, b)
  /\ UNCHANGED <<clock, exprVars, initVars, noopVars>>

Reset ==
  /\ Alive
  /\ \E vals \in Reports :
       LET a == PapiReset(papi, vals)
           b == FallbackReset(fb)
       IN /\ papi' = a.p
          /\ fb' = b.f
          /\ tout' = Traced("reset", "", a, b)
  /\ UNCHANGED <<clock, exprVars, initVars, noopVars>>

Value(name) ==
  /\ Alive
  /\ \E g \in Garbage("_result") :
       tout' = Traced("value", name, [res |-> PapiValue(papi, name), p |-> papi],
                      [res |-> FallbackValue(fb, name, g), f |-> fb])
  /\ UNCHANGED <<papi, fb, clock, exprVars, initVars, noopVars>>

\* both tracers go out of scope; FallbackTracer's destructor is implicit
Destroy ==
  /\ Alive
  /\ \E vals \in Reports :
       LET a == PapiDestroy(papi, vals)
       IN /\ papi' = a.p
          /\ tout' = Traced("destroy", "", a, [res |-> Ok(0), f |-> fb])
  /\ UNCHANGED <<fb, clock, exprVars, initVars, noopVars>>

\* the wall clock advances
Tick(d) ==
  /\ Alive
  /\ clock + d <= MaxSeconds * 1000000
  /\ clock' = clock + d
  /\ UNCHANGED <<papi, fb, tout, exprVars, initVars, noopVars>>

(***************************************************************************)
(* PapiTracer::PapiTracer() and PapiTracer::initialize() run by threads     *)
(***************************************************************************)
Threads == 1 .. NumThreads
NoThread == 0

\* the positions of a thread inside initialize()
InsideInitialize == {"lock", "test", "init", "set", "return", "unwind"}

\* the program starts: the function-local statics of initialize() are
\* constant-initialised (initialized = false, init_mtx unlocked).  lib counts
\* the calls of PAPI_library_init: all, the successful ones, and those made
\* after a successful one.
InitIdle ==
  /\ pc = [th \in Threads |-> "idle"]
  /\ built = [th \in Threads |-> 0]
  /\ init_mtx = NoThread
  /\ initialized = FALSE
  /\ lib = [calls |-> 0, ok |-> 0, late |-> 0]
  /\ exited = FALSE

\* line 81-82: a thread constructs a PapiTracer and calls initialize()
Construct(th) ==
  /\ ~exited
  /\ pc[th] = "idle"
  /\ built[th] < MaxConstructions
  /\ pc' = [pc EXCEPT ![th] = "lock"]
  /\ UNCHANGED <<built, init_mtx, initialized, lib, exited, exprVars, tracerVars, noopVars>>

\* lock_guard constructor without waiting for the mutex
Lock_noMutex(th) ==
  /\ ~exited
  /\ pc[th] = "lock"
  /\ init_mtx' = th
  /\ pc' = [pc EXCEPT ![th] = "test"]
  /\ UNCHANGED <<built, initialized, lib, exited, exprVars, tracerVars, noopVars>>

\* line 72: std::lock_guard<std::mutex> guard(init_mtx) blocks until the
\* mutex is free
Lock(th) ==
  /\ ~exited
  /\ pc[th] = "lock"
  /\ init_mtx = NoThread
  /\ init_mtx' = th
  /\ pc' = [pc EXCEPT ![th] = "test"]
  /\ UNCHANGED <<built, initialized, lib, exited, exprVars, tracerVars, noopVars>>

\* line 73: if (!initialized)
Test(th) ==
  /\ ~exited
  /\ pc[th] = "test"
  /\ pc' = [pc EXCEPT ![th] = IF initialized THEN "return" ELSE "init"]
  /\ UNCHANGED <<built, init_mtx, initialized, lib, exited, exprVars, tracerVars, noopVars>>

\* lines 74-75: PAPI_library_init(PAPI_VER_CURRENT) returns the version, or
\* something else and a TracingError is thrown
LibraryInit(th) ==
  /\ ~exited
  /\ pc[th] = "init"
  /\ \E ok \in BOOLEAN :
       /\ lib' = [calls |-> lib.calls + 1,
                  ok |-> lib.ok + (IF ok THEN 1 ELSE 0),
                  late |-> lib.late + (IF lib.ok > 0 THEN 1 ELSE 0)]
       /\ pc' = [pc EXCEPT ![th] = IF ok THEN "set" ELSE "unwind"]
  /\ UNCHANGED <<built, init_mtx, initialized, exited, exprVars, tracerVars, noopVars>>

\* line 76: initialized = true
SetInitialized(th) ==
  /\ ~exited
  /\ pc[th] = "set"
  /\ initialized' = TRUE
  /\ pc' = [pc EXCEPT ![th] = "return"]
  /\ UNCHANGED <<built, init_mtx, lib, exited, exprVars, tracerVars, noopVars>>

\* line 78: initialize() returns; the lock_guard releases the mutex
Return(th) ==
  /\ ~exited
  /\ pc[th] = "return"
  /\ init_mtx' = IF init_mtx = th THEN NoThread ELSE init_mtx
  /\ pc' = [pc EXCEPT ![th] = "past"]
  /\ UNCHANGED <<built, initialized, lib, exited, exprVars, tracerVars, noopVars>>

\* an exception that leaves initialize() with the mutex still locked
Unwind_keepLock(th) ==
  /\ ~exited
  /\ pc[th] = "unwind"
  /\ pc' = [pc EXCEPT ![th] = "thrown"]
  /\ UNCHANGED <<built, init_mtx, initialized, lib, exited, exprVars, tracerVars, noopVars>>

\* line 75: the TracingError leaves initialize(); stack unwinding destroys
\* the lock_guard, which releases the mutex
Unwind(th) ==
  /\ ~exited
  /\ pc[th] = "unwind"
  /\ init_mtx' = IF init_mtx = th THEN NoThread ELSE init_mtx
  /\ pc' = [pc EXCEPT ![th] = "thrown"]
  /\ UNCHANGED <<built, initialized, lib, exited, exprVars, tracerVars, noopVars>>

\* lines 84-92: the rest of the constructor.  PAPI_thread_init fails: a
\* TracingError; PAPI_create_eventset fails: exit(-1) ends the program.
Finish(th) ==
  /\ ~exited
  /\ pc[th] = "past"
  /\ \E outcome \in {"ok", "TracingError", "exit"} :
       /\ exited' = (outcome = "exit")
       /\ pc' = [pc EXCEPT ![th] = IF outcome = "exit" THEN @ ELSE "idle"]
       /\ built' = [built EXCEPT ![th] = IF outcome = "exit" THEN @ ELSE @ + 1]
  /\ UNCHANGED <<init_mtx, initialized, lib, exprVars, tracerVars, noopVars>>

\* line 82: the TracingError of initialize() leaves the constructor
Fail(th) ==
  /\ ~exited
  /\ pc[th] = "thrown"
  /\ pc' = [pc EXCEPT ![th] = "idle"]
  /\ built' = [built EXCEPT ![th] = @ + 1]
  /\ UNCHANGED <<init_mtx, initialized, lib, exited, exprVars, tracerVars, noopVars>>

(***************************************************************************)
(* NoOp                                                                    *)
(***************************************************************************)
\* what a Json::Value handed to parse() may hold
Payloads == {"null", "number", "object", "malformed"}

\* a default-constructed NoOp: a plan operation with no input wired and no
\* output
NoOpNew == [type |-> "NoOp", input |-> NullTable, output |-> NullTable]

\* a parse() that validates its payload
parse_validating(d) ==
  IF d = "malformed"
  THEN [res |-> Thrown("runtime_error", <<"invalid payload">>), made |-> << >>,
        data |-> d, reads |-> 1]
  ELSE [res |-> Ok(0), made |-> <<NoOpNew>>, data |-> d, reads |-> 1]

\* NoOp::parse(Json::Value &data): std::make_shared<NoOp>().  made: the
\* instances constructed; data: the payload afterwards; reads: the accesses
\* to the payload.
parse(d) == [res |-> Ok(0), made |-> <<NoOpNew>>, data |-> d, reads |-> 0]

\* NoOp::executePlanOperation(): an empty body
executePlanOperation(o) == [res |-> Ok(0), op |-> o]

\* the last call on a NoOp: how it ended, the instances it constructed,
\* whether it left the instance it was called on and the payload as they
\* were, how often the instance has now been executed in a row
NoRun == [op |-> "none", i |-> 0, res |-> Ok(0), made |-> << >>, reads |-> 0,
          kept |-> TRUE, runs |-> 0]

\* before the program starts
NoOpIdle ==
  /\ is_registered = FALSE
  /\ ops = << >>
  /\ data = "null"
  /\ nout = NoRun

\* line 4: static initialisation registers the operation with the parser
Register ==
  /\ ~is_registered
  /\ is_registered' = TRUE
  /\ UNCHANGED <<ops, data, nout, exprVars, tracerVars, initVars>>

\* the plan deserializer holds the next payload
Receive(d) ==
  /\ is_registered
  /\ data # d
  /\ data' = d
  /\ UNCHANGED <<is_registered, ops, nout, exprVars, tracerVars, initVars>>

\* the parser calls NoOp::parse on the payload it holds; ops remembers the
\* payload each instance was parsed from
Parse ==
  /\ is_registered
  /\ Len(ops) < MaxOps
  /\ LET r == parse(data)
     IN /\ ops' = ops \o [k \in 1 .. Len(r.made) |-> [op |-> r.made[k], payload |-> data]]
        /\ data' = r.data
        /\ nout' = [NoRun EXCEPT !.op = "parse", !.i = Len(ops) + Len(r.made),
                                 !.res = r.res, !.made = r.made,
                                 !.reads = r.reads,
                                 !.kept = (r.data = data)]
  /\ UNCHANGED <<is_registered, exprVars, tracerVars, initVars>>

\* the scheduler wires a table to the input of an instance
Wire(i, t) ==
  /\ i \in 1 .. Len(ops)
  /\ ops[i].op.input # t
  /\ ops' = [ops EXCEPT ![i].op.input = t]
  /\ UNCHANGED <<is_registered, data, nout, exprVars, tracerVars, initVars>>

\* the scheduler executes an instance
Execute(i) ==
  /\ i \in 1 .. Len(ops)
  /\ (nout.op = "execute" /\ nout.i = i) => nout.runs < MaxRuns
  /\ LET r == executePlanOperation(ops[i].op)
     IN /\ ops' = [ops EXCEPT ![i].op = r.op]
        /\ nout' = [NoRun EXCEPT !.op = "execute", !.i = i, !.res = r.res,
                                 !.kept = (r.op = ops[i].op),
                                 !.runs = IF nout.op = "execute" /\ nout.i = i
                                          THEN nout.runs + 1 ELSE 1]
  /\ UNCHANGED <<is_registered, data, exprVars, tracerVars, initVars>>

\* the tracers as constructed, for the specifications that do not run them
TracerIdle ==
  /\ papi = PapiNew
  /\ fb = FallbackNew
  /\ clock = 0
  /\ tout = NoTrace

\* the expressions, for the specifications that do not run them
ExprIdle ==
  /\ tables = [id \in TableIds |-> CHOOSE tb \in TableSet(id) : TRUE]
  /\ exprs = [id \in ExprIds |-> Absent]
  /\ last = NoCall

InitTracer ==
  /\ TracerIdle
  /\ ExprIdle
  /\ InitIdle
  /\ NoOpIdle

NextTracer ==
  \/ \E name \in Names : AddEvent(name)
  \/ Start
  \/ Stop
  \/ Reset
  \/ \E name \in Names : Value(name)
  \/ \E d \in TickSteps : Tick(d)
  \/ Destroy

SpecTracer == InitTracer /\ [][NextTracer]_vars

InitExpr ==
  /\ tables \in {tb \in [TableIds -> UNION {TableSet(id) : id \in TableIds}] :
                   \A id \in TableIds : tb[id] \in TableSet(id)}
  /\ \E v \in Values :
       \/ \E i \in {0, 1}, f \in Fields :
            exprs = [id \in ExprIds |-> IF id = 1 THEN NewByIndex(i, f, v) ELSE Absent]
       \/ \E i \in {0, 1}, n \in FieldNames :
            exprs = [id \in ExprIds |-> IF id = 1 THEN NewByName(i, n, v) ELSE Absent]
       \/ \E t \in TableIds, f \in Fields :
            exprs = [id \in ExprIds |-> IF id = 1 THEN NewByTable(t, f, v) ELSE Absent]
  /\ last = NoCall
  /\ TracerIdle
  /\ InitIdle
  /\ NoOpIdle

NextExpr ==
  \/ \E id \in ExprIds, li \in 1 .. Len(Lists) : Walk(id, li)
  \/ \E id \in ExprIds, row \in Rows : Eval(id, row)
  \/ Clone

SpecExpr == InitExpr /\ [][NextExpr]_vars

InitInit ==
  /\ InitIdle
  /\ TracerIdle
  /\ ExprIdle
  /\ NoOpIdle

InitNoOp ==
  /\ NoOpIdle
  /\ InitIdle
  /\ TracerIdle
  /\ ExprIdle

NextNoOp ==
  \/ Register
  \/ \E d \in Payloads : Receive(d)
  \/ Parse
  \/ \E i \in 1 .. MaxOps, t \in TableIds \cup {NullTable} : Wire(i, t)
  \/ \E i \in 1 .. MaxOps : Execute(i)

SpecNoOp == InitNoOp /\ [][NextNoOp]_vars

\* one step of thread th inside initialize()
InitializeStep(th) ==
  \/ Test(th)
  \/ LibraryInit(th)
  \/ SetInitialized(th)
  \/ Return(th)
  \/ Unwind(th)

NextInit ==
  \E th \in Threads :
    \/ Construct(th)
    \/ Lock(th)
    \/ InitializeStep(th)
    \/ Finish(th)
    \/ Fail(th)

SpecInit == InitInit /\ [][NextInit]_vars

\* fair scheduling: a thread that can take a step inside initialize()
\* eventually takes it, and a thread waiting for the mutex eventually gets
\* it if it is free again and again
SpecInitFair ==
  /\ SpecInit
  /\ \A th \in Threads : WF_vars(InitializeStep(th)) /\ SF_vars(Lock(th))

(***************************************************************************)
(* Properties of EqualsExpression                                          *)
(***************************************************************************)
\* the expression's bound field holds a dictionary of the expression's type
TypedField(e) ==
  /\ e.table # NullTable
  /\ "field" \notin e.indet
  /\ tables[e.table].cols[e.field].type = T

\* walk() returned normally against a field whose dictionary has type T
BoundTyped(e) == e.alive /\ e.bound /\ TypedField(e)

\* the literal is one of the values of the bound field's dictionary
InDictionary(e) ==
  LET d == tables[e.table].cols[e.field].dict
  IN \E i \in 1 .. Len(d) : d[i] = e.value

\* the value a row of the bound field holds (its dictionary entry)
RowValue(e, row) ==
  LET c == tables[e.table].cols[e.field] IN c.dict[c.ids[row] + 1]

\* C1: a literal that is not in the bound field's dictionary: a walk() does
\* exactly one dictionary lookup, and every evaluation after it returns false
\* without reading the table (no getValueId call) and without a lookup.
C1_AbsentLiteralIsFalse ==
  \A id \in ExprIds :
    (last.e = id /\ BoundTyped(exprs[id]) /\ ~InDictionary(exprs[id])) =>
      /\ last.op = "walk" => (last.outcome = "ok" /\ last.lookups = 1)
      /\ last.op = "eval" =>
           (last.outcome = "false" /\ last.reads = 0 /\ last.lookups = 0)

C1_Witness ==
  /\ last.op = "eval" /\ last.e = 1 /\ last.outcome = "false"
  /\ BoundTyped(exprs[1]) /\ ~InDictionary(exprs[1])

\* C2: a literal that is in the bound field's dictionary: walk() resolves it
\* to its ValueId, and an evaluation returns true exactly for the rows whose
\* ValueId equals the resolved one (the rows that hold the literal).
C2_PresentLiteralMatchesRows ==
  \A id \in ExprIds :
    (last.e = id /\ BoundTyped(exprs[id]) /\ InDictionary(exprs[id])) =>
      LET e == exprs[id]
          tab == tables[e.table]
      IN /\ tab.cols[e.field].dict[e.lower_bound + 1] = e.value
         /\ last.op = "eval" =>
              /\ last.outcome \in {"true", "false"}
              /\ last.outcome = "true" <=>
                   getValueId(tab, e.field, last.row) = e.lower_bound
              /\ last.outcome = "true" <=> RowValue(e, last.row) = e.value

C2_Witness ==
  /\ last.op = "eval" /\ last.e = 1 /\ last.outcome = "true"
  /\ BoundTyped(exprs[1]) /\ InDictionary(exprs[1])
  /\ exprs[1].lower_bound = 1
  /\ \E r \in Rows : getValueId(tables[exprs[1].table], exprs[1].field, r)
                       # exprs[1].lower_bound

\* C3: evaluating an expression walk() has not bound (fresh, or the clone of
\* a bound one) fails instead of returning a boolean.
C3_UnboundEvalFails ==
  \A id \in ExprIds :
    (last.op = "eval" /\ last.e = id /\ ~exprs[id].bound) =>
      last.outcome \notin {"true", "false"}

\* the table an input list selects for the clone: the slot of the original,
\* the first table when the original was built on a table handle
Selected(li) ==
  IF exprs[1].input = NoInput THEN Lists[li][1] ELSE Lists[li][exprs[1].input + 1]

\* C4: the clone of a bound expression, walked on an input list, is bound to
\* the table that list selects and resolves the literal in that table's
\* dictionary.
C4_CloneRebindsToSelected ==
  (last.op = "walk" /\ last.e = 2 /\ exprs[2].cloneOfBound) =>
    (last.outcome = "ok" => exprs[2].table = Selected(last.l))

\* C5: walk() against a field whose dictionary is not of type T ends in a
\* type-mismatch error, with no lookup attempted through the failed cast.
C5_TypeMismatchIsAnError ==
  \A id \in ExprIds :
    (last.op = "walk" /\ last.e = id /\ exprs[id].table # NullTable
       /\ "field" \notin exprs[id].indet /\ ~TypedField(exprs[id])) =>
      (last.outcome = "type_mismatch" /\ last.lookups = 0)

\* the expression as its constructor left it
AsConstructed(e) ==
  Fresh(e.input, NullTable, IF e.field_name # "" THEN NoField ELSE e.field,
        e.field_name, e.value)

Lists_All(msg, names) ==
  \A i \in 1 .. Len(names) : \E k \in 4 .. Len(msg) : msg[k] = names[i]

\* C6: once "NO_PAPI" has been passed to addEvent, start(), stop() and
\* reset() succeed and change nothing, and value() returns 0 for every name,
\* on both tracers.
C6_DisabledIsNoOp ==
  (\E i \in 1 .. Len(fb._counters) : fb._counters[i] = "NO_PAPI") =>
    /\ tout.op \in {"start", "stop", "reset"} =>
         /\ tout.p.status = "ok" /\ tout.pkept
         /\ tout.f.status = "ok" /\ tout.fkept
    /\ tout.op = "value" => (tout.p = Ok(0) /\ tout.f = Ok(0))

\* C7: value(name) for a name never passed to addEvent fails with a
\* TracingError whose text lists every registered counter name, and leaves
\* the tracer as it was (PapiTracer: when not disabled).
C7_UnregisteredNameFails ==
  tout.op = "value" =>
    /\ (~papi._disabled /\ find(papi._counters, tout.name) = 0) =>
         /\ tout.p.status = "TracingError"
         /\ Lists_All(tout.p.msg, papi._counters)
         /\ tout.pkept
    /\ find(fb._counters, tout.name) = 0 =>
         /\ tout.f.status = "TracingError"
         /\ Lists_All(tout.f.msg, fb._counters)
         /\ tout.fkept

C7_Witness ==
  /\ tout.op = "value"
  /\ ~papi._disabled
  /\ Len(papi._counters) = 2 /\ papi._counters[1] # papi._counters[2]
  /\ find(papi._counters, tout.name) = 0
  /\ tout.p.status = "TracingError" /\ tout.f.status = "TracingError"

\* C8: value(name) for a registered name returns a result instead of
\* failing, and the result is the one the most recent completed
\* start()/stop() window stored.
C8_RegisteredNameHasResult ==
  tout.op = "value" =>
    /\ (~papi._disabled /\ find(papi._counters, tout.name) # 0) =>
         /\ tout.p.status = "ok"
         /\ LET k == find(papi.events, tout.name)
            IN (k # 0 /\ k <= Len(papi.snap)) => tout.p.value = papi.snap[k]
    /\ find(fb._counters, tout.name) # 0 =>
         /\ tout.f.status = "ok"
         /\ fb.snap # -1 => tout.f.value = fb.snap

\* C9: start() with no registered counters fails and leaves the tracer idle
\* and unchanged (PapiTracer: when not disabled).
C9_StartWithoutCountersFails ==
  tout.op = "start" =>
    /\ (~papi._disabled /\ Len(papi._counters) = 0) =>
         /\ tout.p.status # "ok"
         /\ tout.pkept
         /\ ~papi._running /\ ~papi.counting
    /\ Len(fb._counters) = 0 =>
         /\ tout.f.status # "ok"
         /\ tout.fkept

C9_Witness ==
  /\ tout.op = "start"
  /\ ~papi._disabled /\ Len(papi._counters) = 0 /\ Len(fb._counters) = 0
  /\ tout.p.status = "runtime_error" /\ tout.f.status = "TracingError"

\* C10: reset() succeeds in every state of a tracer that is not disabled,
\* and leaves it idle with its results cleared.
C10_ResetAlwaysSucceeds ==
  tout.op = "reset" =>
    /\ ~papi._disabled =>
         /\ tout.p.status = "ok"
         /\ ~papi._running /\ ~papi.counting
         /\ papi._results = << >>
    /\ tout.f.status = "ok" /\ fb._result = 0 /\ fb.indet = {}

\* C11: PapiTracer::addEvent(name) with a name PAPI cannot translate raises
\* a TracingError in that call and does not register the name.
C11_InvalidNameFailsInAddEvent ==
  (tout.op = "addEvent" /\ tout.name \notin ValidNames \cup {"NO_PAPI"}) =>
    /\ tout.p.status = "TracingError"
    /\ tout.pkept

\* C12: when only valid counter names and the reserved name are added, every
\* call succeeds on the PapiTracer iff it succeeds on the FallbackTracer.
C12_BackendsSucceedAlike ==
  (\A i \in 1 .. Len(fb._counters) : fb._counters[i] \in ValidNames \cup {"NO_PAPI"}) =>
    (tout.p.status = "ok" <=> tout.f.status = "ok")

\* C14: once a stop() has closed the window a start() opened, the stored
\* result is the time from that start() to that stop() only, in
\* microseconds, whatever an earlier window measured, and value() of any
\* registered name returns it.
C14_SecondWindowOnly ==
  (fb.startedAt # -1 /\ fb.stoppedAt # -1) =>
    /\ fb._result = fb.stoppedAt - fb.startedAt
    /\ fb.snap = fb._result
    /\ (tout.op = "value" /\ find(fb._counters, tout.name) # 0) =>
         tout.f = Ok(fb.stoppedAt - fb.startedAt)

\* value() after a second window that was longer than all the time before
\* its start(), hence longer than the first window
C14_Witness ==
  /\ tout.op = "value" /\ tout.f.status = "ok"
  /\ fb.again
  /\ fb.startedAt > 0
  /\ tout.f.value > fb.startedAt

C18_SecondWindowStarts ==
  (tout.op = "start" /\ ~papi._disabled /\ papi.win = "reused") =>
    /\ tout.p.msg # <<"Adding event to event set">>
    /\ tout.p.status = "ok"

\* C19: _running is true exactly when the event set is counting, so the
\* destructor neither cleans up a counting event set nor stops an idle one:
\* it completes without an error.
C19_RunningIffCounting ==
  /\ papi._running <=> papi.counting
  /\ tout.op = "destroy" => tout.p.status = "ok"

(***************************************************************************)
(* Properties of the one-time initialization                               *)
(***************************************************************************)
\* the threads that are calling PAPI_library_init or have just returned
\* from it
InLibraryInit == {th \in Threads : pc[th] \in {"init", "set"}}

\* C13 as stated: PAPI_library_init is called at most once, and no
\* constructor is past initialize() before the initialization has completed.
C13_InitCalledAtMostOnce ==
  /\ lib.calls <= 1
  /\ \A th \in Threads : pc[th] = "past" => (initialized /\ lib.ok >= 1)

\* C13: PAPI_library_init succeeds at most once and is never called after it
\* has succeeded (it is called again only after a failed call), its calls
\* never overlap, and no constructor is past initialize() before a call has
\* succeeded and initialized has been set.
C13_InitSucceedsAtMostOnce ==
  /\ lib.ok <= 1
  /\ lib.late = 0
  /\ Cardinality(InLibraryInit) <= 1
  /\ initialized => lib.ok = 1
  /\ \A th \in Threads : pc[th] = "past" => (initialized /\ lib.ok = 1)

C13_Witness ==
  /\ lib.calls >= 2 /\ lib.ok = 1
  /\ \E th, ot \in Threads :
       /\ pc[th] = "past"
       /\ pc[ot] = "return" /\ init_mtx = ot
       /\ built[ot] = 0

\* a thread is inside initialize()
InInitialize(th) == pc[th] \in InsideInitialize

\* C20: under fair scheduling every thread that enters initialize()
\* eventually leaves it, by returning or by a TracingError (or the program
\* has ended).
C20_InitializeTerminates ==
  \A th \in Threads : InInitialize(th) ~> (~InInitialize(th) \/ exited)

\* a thread waits for the mutex after a failed PAPI_library_init of another
\* thread, which is leaving initialize() by the TracingError
C20_Witness ==
  \E th, ot \in Threads :
    /\ pc[th] = "lock"
    /\ pc[ot] = "thrown"
    /\ init_mtx = NoThread
    /\ ~initialized

(***************************************************************************)
(* Properties of NoOp                                                      *)
(***************************************************************************)
\* C16: NoOp::parse returns one newly constructed default NoOp for every
\* payload, without an error, without reading or changing the payload;
\* NoOp::executePlanOperation ends without an error and changes neither the
\* instance nor anything else, however often it is called.
C16_NoOpHasNoEffect ==
  /\ nout.op = "parse" =>
       /\ nout.res.status = "ok"
       /\ nout.reads = 0
       /\ nout.kept
       /\ nout.made = <<NoOpNew>>
       /\ nout.i \in 1 .. Len(ops)
  /\ nout.op = "execute" =>
       /\ nout.res.status = "ok"
       /\ nout.kept
       /\ ops[nout.i].op.output = NullTable

C16_Witness ==
  /\ nout.op = "execute" /\ nout.runs = MaxRuns
  /\ ops[nout.i].payload = "malformed"
  /\ ops[nout.i].op.input # NullTable

====
